---- MODULE Spec2Model ----
(***************************************************************************)
(* Sol-r: sunrise/sunset computation (src/utils/solarCalc.ts) and the      *)
(* year series built from it by the SunChart component (src/App.tsx).      *)
(*                                                                         *)
(* JavaScript numbers are modelled as fixed-point integers with SCALE      *)
(* units per 1.0; the trigonometric library functions are modelled by a    *)
(* one-degree sine table with linear interpolation and its inverses.       *)
(* Non-finite numbers are the sentinels PosInf, NegInf and NaN.            *)
(***************************************************************************)
EXTENDS Integers, Sequences, FiniteSets, TLC

(***************************************************************************)
(* Numbers                                                                 *)
(***************************************************************************)
\* const x = value; body: the number is computed once, where it is declared,
\* and body is a function of it
Const(value, body) == body[value]

SCALE == 100 * 100

PosInf == SCALE * SCALE * 10
NegInf == 0 - PosInf
NaN == PosInf + 1

\* the null of a "number | null" field
null == PosInf + 2

IsFinite(x) == x > NegInf /\ x < PosInf

\* a > b and a < b of JavaScript: false as soon as one side is NaN
Gt(a, b) == a # NaN /\ b # NaN /\ a > b
Lt(a, b) == a # NaN /\ b # NaN /\ a < b

Abs(x) == IF x < 0 THEN 0 - x ELSE x

\* a * b of two fixed-point numbers, rounded to the nearest unit
FMul(a, b) ==
    LET ah == a \div SCALE
        al == a % SCALE
        bh == b \div SCALE
        bl == b % SCALE
    IN  ah * bh * SCALE + ah * bl + al * bh + (al * bl + SCALE \div 2) \div SCALE

\* c * x for a literal c given with five decimals (c5 = c * 10^5)
Mul5(c5, x) == (FMul(c5, x) + 5) \div 10

\* a / b of two fixed-point numbers.  A zero divisor stands for the tiny
\* positive value the library cosine yields at +-90 degrees.
FDiv(a, b) ==
    IF b = 0 THEN (IF a > 0 THEN PosInf ELSE IF a < 0 THEN NegInf ELSE 0)
    ELSE IF b > 0 THEN (a * SCALE) \div b
    ELSE ((0 - a) * SCALE) \div (0 - b)

\* a % b of JavaScript (b > 0): the remainder has the sign of the dividend
JSRem(a, b) == IF a >= 0 THEN a % b ELSE 0 - ((0 - a) % b)

\* sin(k degrees) * SCALE for k = 0..90, at index k + 1
SinTable ==
    << 0, 175, 349, 523, 698, 872, 1045, 1219, 1392, 1564,
       1736, 1908, 2079, 2250, 2419, 2588, 2756, 2924, 3090, 3256,
       3420, 3584, 3746, 3907, 4067, 4226, 4384, 4540, 4695, 4848,
       5000, 5150, 5299, 5446, 5592, 5736, 5878, 6018, 6157, 6293,
       6428, 6561, 6691, 6820, 6947, 7071, 7193, 7314, 7431, 7547,
       7660, 7771, 7880, 7986, 8090, 8192, 8290, 8387, 8480, 8572,
       8660, 8746, 8829, 8910, 8988, 9063, 9135, 9205, 9272, 9336,
       9397, 9455, 9511, 9563, 9613, 9659, 9703, 9744, 9781, 9816,
       9848, 9877, 9903, 9925, 9945, 9962, 9976, 9986, 9994, 9998,
       10000 >>

\* sine of a first-quadrant angle q in [0, 90] degrees (fixed point)
SinQ(q) ==
    LET k == q \div SCALE
        f == q % SCALE
    IN  IF k >= 90 THEN SinTable[91]
        ELSE SinTable[k + 1] + ((SinTable[k + 2] - SinTable[k + 1]) * f + SCALE \div 2) \div SCALE

\* Math.sin(toRadians(x)), x in fixed-point degrees
SinDeg(x) ==
    LET r == x % (360 * SCALE)
    IN  IF r <= 90 * SCALE THEN SinQ(r)
        ELSE IF r <= 180 * SCALE THEN SinQ(180 * SCALE - r)
        ELSE IF r <= 270 * SCALE THEN 0 - SinQ(r - 180 * SCALE)
        ELSE 0 - SinQ(360 * SCALE - r)

\* Math.cos(toRadians(x))
CosDeg(x) == SinDeg(x + 90 * SCALE)

\* the sign of sin(x): 0 only at the exact multiples of 180 degrees
SinSign(x) ==
    LET r == x % (360 * SCALE)
    IN  IF r = 0 \/ r = 180 * SCALE THEN 0 ELSE IF r < 180 * SCALE THEN 1 ELSE 0 - 1

\* Math.tan(toRadians(x)).  A sine or cosine that rounds to zero keeps its
\* sign (one unit), so that the tangent has the sign the library gives it; at
\* exactly 90 and 270 degrees the library yields a huge positive number.
TanDeg(x) ==
    LET s == IF SinDeg(x) = 0 THEN SinSign(x) ELSE SinDeg(x)
        c == IF CosDeg(x) = 0 THEN SinSign(x + 90 * SCALE) ELSE CosDeg(x)
    IN  IF c = 0 THEN PosInf ELSE FDiv(s, c)

\* the table index k in lo..hi with SinTable[k] <= v < SinTable[k + 1]
RECURSIVE TableIndex(_, _, _)
TableIndex(v, lo, hi) ==
    IF lo >= hi THEN lo
    ELSE LET mid == (lo + hi + 1) \div 2
         IN  IF SinTable[mid] <= v THEN TableIndex(v, mid, hi)
             ELSE TableIndex(v, lo, mid - 1)

\* toDegrees(Math.asin(v)), v in [-1, 1]: the inverse of SinQ
AsinDeg(v) ==
    LET a == Abs(v)
        k == TableIndex(a, 1, 91)
        q == IF k >= 91 THEN 90 * SCALE
             ELSE (k - 1) * SCALE
                  + ((a - SinTable[k]) * SCALE) \div (SinTable[k + 1] - SinTable[k])
    IN  IF v < 0 THEN 0 - q ELSE q

\* toDegrees(Math.acos(v)), v in [-1, 1]
AcosDeg(v) == 90 * SCALE - AsinDeg(v)

\* the largest angle a in lo..hi (first quadrant) with tan(a) <= y, y >= 0
RECURSIVE AtanSearch(_, _, _)
AtanSearch(y, lo, hi) ==
    IF lo >= hi THEN lo
    ELSE LET mid == (lo + hi + 1) \div 2
         IN  IF SinQ(mid) <= FMul(y, SinQ(90 * SCALE - mid))
             THEN AtanSearch(y, mid, hi)
             ELSE AtanSearch(y, lo, mid - 1)

\* toDegrees(Math.atan(y)), in [-90, 90]
AtanDeg(y) ==
    IF y = PosInf THEN 90 * SCALE
    ELSE IF y = NegInf THEN 0 - 90 * SCALE
    ELSE IF y >= 0 THEN AtanSearch(y, 0, 90 * SCALE)
    ELSE 0 - AtanSearch(0 - y, 0, 90 * SCALE)

(***************************************************************************)
(* Dates.  A Date is an instant: its UTC epoch day, the second of that day *)
(* and the host's UTC offset (minutes) in effect at the instant; or the    *)
(* Invalid Date; null is the absent result.                                *)
(***************************************************************************)
NullDate == [kind |-> "null", day |-> 0, sec |-> 0, off |-> 0]
InvalidDate == [kind |-> "invalid", day |-> 0, sec |-> 0, off |-> 0]

IsDate(d) == d.kind = "date"

DaySeconds == 24 * 60 * 60
DayMinutes == 24 * 60

\* the largest epoch day of a valid time value (8.64e15 ms)
MaxEpochDay == 10^8

\* year numbers 0..99 given to the Date constructor and to Date.UTC mean 1900..1999
MakeFullYear(y) == IF y >= 0 /\ y <= 99 THEN 1900 + y ELSE y

\* epoch day of the civil date y-m-d (proleptic Gregorian calendar), m in 1..12
DaysFromCivil(y, m, d) ==
    LET yy == IF m <= 2 THEN y - 1 ELSE y
        era == yy \div 400
        yoe == yy - era * 400
        mp == IF m > 2 THEN m - 3 ELSE m + 9
        doy == (153 * mp + 2) \div 5 + d - 1
        doe == yoe * 365 + yoe \div 4 - yoe \div 100 + doy
    IN  era * 146097 + doe - 719468

\* civil date [y, m, d] of an epoch day
CivilFromDays(z) ==
    LET zz == z + 719468
        era == zz \div 146097
        doe == zz - era * 146097
        yoe == (doe - doe \div 1460 + doe \div 36524 - doe \div 146096) \div 365
        doy == doe - (365 * yoe + yoe \div 4 - yoe \div 100)
        mp == (5 * doy + 2) \div 153
        d == doy - (153 * mp + 2) \div 5 + 1
        m == IF mp < 10 THEN mp + 3 ELSE mp - 9
    IN  [y |-> IF m <= 2 THEN yoe + era * 400 + 1 ELSE yoe + era * 400, m |-> m, d |-> d]

\* TimeClip: a time value beyond +-MaxEpochDay days is the Invalid Date
TimeClip(day, sec, off) ==
    IF Abs(day) < MaxEpochDay \/ (Abs(day) = MaxEpochDay /\ (day < 0 \/ sec = 0))
    THEN [kind |-> "date", day |-> day, sec |-> sec, off |-> off]
    ELSE InvalidDate

(***************************************************************************)
(* The host's time zone: a standard offset (minutes east of UTC) and a     *)
(* daylight-saving rule ("none", "north": April to October, "south":       *)
(* October to March) that adds one hour.                                   *)
(***************************************************************************)
InDst(host, m) ==
    \/ host.dst = "north" /\ m >= 4 /\ m <= 10
    \/ host.dst = "south" /\ (m >= 10 \/ m <= 3)

HostOffset(host, m) == host.std + (IF InDst(host, m) THEN 60 ELSE 0)

\* the instant of local midnight of a local epoch day
LocalMidnight(host, localDay) ==
    LET off == HostOffset(host, CivilFromDays(localDay).m)
        utcMin == 0 - off
    IN  TimeClip(localDay + utcMin \div DayMinutes, (utcMin % DayMinutes) * 60, off)

\* new Date(year, monthIndex, day): local midnight of a civil date, day may
\* run past the month's end
NewLocalDate(host, year, monthIndex, day) ==
    IF ~IsFinite(year) THEN InvalidDate
    ELSE LocalMidnight(host, DaysFromCivil(MakeFullYear(year), monthIndex + 1, 1) + day - 1)

\* the local epoch day and the local second of the day of a valid Date
LocalDay(d) == d.day + (d.sec + d.off * 60) \div DaySeconds
LocalSec(d) == (d.sec + d.off * 60) % DaySeconds

getFullYear(d) == IF IsDate(d) THEN CivilFromDays(LocalDay(d)).y ELSE NaN
getMonth(d) == IF IsDate(d) THEN CivilFromDays(LocalDay(d)).m - 1 ELSE NaN
getDate(d) == IF IsDate(d) THEN CivilFromDays(LocalDay(d)).d ELSE NaN
getHours(d) == IF IsDate(d) THEN LocalSec(d) \div 3600 ELSE NaN
getMinutes(d) == IF IsDate(d) THEN (LocalSec(d) % 3600) \div 60 ELSE NaN
getUTCHours(d) == IF IsDate(d) THEN d.sec \div 3600 ELSE NaN
getUTCMinutes(d) == IF IsDate(d) THEN (d.sec % 3600) \div 60 ELSE NaN

\* new Date(Date.UTC(y, monthIndex, day)) followed by setUTCHours(h, mi, s)
NewUTCDate(host, y, monthIndex, day, h, mi, s) ==
    IF \E v \in {y, monthIndex, day, h, mi, s} : ~IsFinite(v) THEN InvalidDate
    ELSE LET base == DaysFromCivil(MakeFullYear(y), monthIndex + 1, 1) + day - 1
             total == h * 3600 + mi * 60 + s
             uday == base + total \div DaySeconds
         IN  TimeClip(uday, total % DaySeconds, HostOffset(host, CivilFromDays(uday).m))

(***************************************************************************)
(* src/utils/solarCalc.ts                                                  *)
(***************************************************************************)
zenith == 908333

\* 1. the day of the year: whole days from local midnight of January 1 to
\* local midnight of the date, plus one
DayOfYear(host, date) ==
    IF ~IsDate(date) THEN NaN
    ELSE LET startOfDay == LocalMidnight(host, LocalDay(date))
             startOfYear == NewLocalDate(host, getFullYear(date), 0, 1)
             diff == (startOfDay.day - startOfYear.day) * DayMinutes
                     + (startOfDay.sec - startOfYear.sec) \div 60
         IN  IF ~IsDate(startOfDay) \/ ~IsDate(startOfYear) THEN NaN
             ELSE diff \div DayMinutes + 1

\* 2. longitude / 15
LngHour(longitude) == IF IsFinite(longitude) THEN longitude \div 15 ELSE longitude

\* the approximate time t of the rising (base hour 6) or setting (18) event
ApproxTime(isSunrise, N, lngHour) ==
    N * SCALE + ((IF isSunrise THEN 6 ELSE 18) * SCALE - lngHour) \div 24

\* 3. the Sun's mean anomaly
MeanAnomaly(t) == FMul(9856, t) - 32890

\* 4. the Sun's true longitude, in [0, 360)
TrueLongitude(t) ==
    LET M == MeanAnomaly(t)
        L == JSRem(M + FMul(19160, SinDeg(M)) + FMul(200, SinDeg(2 * M)) + 2826340,
                   360 * SCALE)
    IN  IF L < 0 THEN L + 360 * SCALE ELSE L

\* 5. the Sun's right ascension, in the quadrant of L, in hours
RightAscension(L) ==
    LET tanL == TanDeg(L)
        RA0 == JSRem(AtanDeg(IF IsFinite(tanL) THEN Mul5(91764, tanL) ELSE tanL),
                     360 * SCALE)
        RA == IF RA0 < 0 THEN RA0 + 360 * SCALE ELSE RA0
        Lquadrant == (L \div (90 * SCALE)) * 90 * SCALE
        RAquadrant == (RA \div (90 * SCALE)) * 90 * SCALE
    IN  (RA + (Lquadrant - RAquadrant)) \div 15

\* 6. the Sun's declination
SinDec(L) == Mul5(39782, SinDeg(L))
CosDec(L) == CosDeg(AsinDeg(SinDec(L)))

\* 7a. the cosine of the Sun's local hour angle; NaN as soon as an input is
\* not a finite number
CosH(isSunrise, N, lngHour, latitude) ==
    IF ~IsFinite(N) \/ ~IsFinite(lngHour) \/ ~IsFinite(latitude) THEN NaN
    ELSE LET L == TrueLongitude(ApproxTime(isSunrise, N, lngHour))
         IN  FDiv(CosDeg(zenith) - FMul(SinDec(L), SinDeg(latitude)),
                  FMul(CosDec(L), CosDeg(latitude)))

\* 8., 9. local mean time of the event, adjusted back to UTC, before the
\* normalization to 0-24 (cosH in [-1, 1])
RawUT(isSunrise, N, lngHour, cosH) ==
    LET t == ApproxTime(isSunrise, N, lngHour)
        H == (IF isSunrise THEN 360 * SCALE - AcosDeg(cosH) ELSE AcosDeg(cosH)) \div 15
        T == H + RightAscension(TrueLongitude(t)) - Mul5(6571, t) - 66220
    IN  T - lngHour

NormalizeUT(UT0) ==
    LET UT1 == IF UT0 < 0 THEN UT0 + 24 * SCALE ELSE UT0
    IN  IF UT1 > 24 * SCALE THEN UT1 - 24 * SCALE ELSE UT1

\* calculateTime without the "sun never sets" return
calculateTime_NoPolarDay(isSunrise, host, date, N, lngHour, latitude) ==
    LET cosH == CosH(isSunrise, N, lngHour, latitude)
        c == IF Lt(cosH, 0 - SCALE) THEN 0 - SCALE ELSE cosH
    IN  IF Gt(cosH, SCALE) THEN NullDate
        ELSE IF cosH = NaN THEN InvalidDate
        ELSE LET UT == NormalizeUT(RawUT(isSunrise, N, lngHour, c))
                 hours == UT \div SCALE
                 minutes == ((UT - hours * SCALE) * 60) \div SCALE
             IN  NewUTCDate(host, getFullYear(date), getMonth(date), getDate(date),
                            hours, minutes, 0)

\* calculateTime without the "sun never rises" return
calculateTime_NoPolarNight(isSunrise, host, date, N, lngHour, latitude) ==
    LET cosH == CosH(isSunrise, N, lngHour, latitude)
        c == IF Gt(cosH, SCALE) THEN SCALE ELSE cosH
    IN  IF Lt(cosH, 0 - SCALE) THEN NullDate
        ELSE IF cosH = NaN THEN InvalidDate
        ELSE LET UT == NormalizeUT(RawUT(isSunrise, N, lngHour, c))
                 hours == UT \div SCALE
                 minutes == ((UT - hours * SCALE) * 60) \div SCALE
             IN  NewUTCDate(host, getFullYear(date), getMonth(date), getDate(date),
                            hours, minutes, 0)

calculateTime(isSunrise, host, date, N, lngHour, latitude) ==
    Const(CosH(isSunrise, N, lngHour, latitude), [cosH \in Int |->
      IF Gt(cosH, SCALE) THEN NullDate
      ELSE IF Lt(cosH, 0 - SCALE) THEN NullDate
      ELSE IF cosH = NaN THEN InvalidDate
      ELSE Const(NormalizeUT(RawUT(isSunrise, N, lngHour, cosH)), [UT \in Int |->
           Const(UT \div SCALE, [hours \in Int |->
           Const(((UT - hours * SCALE) * 60) \div SCALE, [minutes \in Int |->
           Const((((UT - hours * SCALE) * 60 - minutes * SCALE) * 60) \div SCALE,
                 [seconds \in Int |->
             NewUTCDate(host, getFullYear(date), getMonth(date), getDate(date),
                        hours, minutes, seconds)])])])])])

getSunTimes(host, date, latitude, longitude) ==
    Const(DayOfYear(host, date), [N \in Int |->
    Const(LngHour(longitude), [lngHour \in Int |->
      [sunrise |-> calculateTime(TRUE, host, date, N, lngHour, latitude),
       sunset |-> calculateTime(FALSE, host, date, N, lngHour, latitude)]])])

(***************************************************************************)
(* Strings are sequences of one-character strings.                         *)
(***************************************************************************)
DigitChar(d) == <<"0", "1", "2", "3", "4", "5", "6", "7", "8", "9">>[d + 1]

\* String(n) of an integer or NaN
RECURSIVE StringOfNumber(_)
StringOfNumber(n) ==
    IF n = NaN THEN <<"N", "a", "N">>
    ELSE IF n < 0 THEN <<"-">> \o StringOfNumber(0 - n)
    ELSE IF n < 10 THEN <<DigitChar(n)>>
    ELSE StringOfNumber(n \div 10) \o <<DigitChar(n % 10)>>

\* s.padStart(width, '0')
RECURSIVE padStart(_, _)
padStart(s, width) == IF Len(s) >= width THEN s ELSE padStart(<<"0">> \o s, width)

\* the value of an <input type="date"> holding the civil date y-m-d
InputDateValue(y, m, d) ==
    padStart(StringOfNumber(y), 4) \o <<"-">> \o padStart(StringOfNumber(m), 2)
        \o <<"-">> \o padStart(StringOfNumber(d), 2)

(***************************************************************************)
(* src/App.tsx: SunChart                                                   *)
(***************************************************************************)
\* isLeap without the century rule
isLeap_Div4(year) == JSRem(year, 4) = 0

isLeap(year) ==
    (JSRem(year, 4) = 0 /\ JSRem(year, 100) # 0) \/ JSRem(year, 400) = 0

dayCount(year) == IF isLeap(year) THEN 366 ELSE 365

\* times.sunrise && times.sunset: a Date object, valid or not, is truthy
BothTruthy(times) == times.sunrise # NullDate /\ times.sunset # NullDate

\* MinutesOfDay read with getUTCHours and getUTCMinutes
MinutesOfDay_UTC(d) ==
    IF IsDate(d) THEN getUTCHours(d) * 60 + getUTCMinutes(d) ELSE NaN

MinutesOfDay(d) ==
    IF IsDate(d) THEN getHours(d) * 60 + getMinutes(d) ELSE NaN

\* `${yStr}-${mStr}-${dStr}` of the loop body
localDateStr(date) ==
    StringOfNumber(getFullYear(date)) \o <<"-">>
        \o padStart(StringOfNumber(IF IsDate(date) THEN getMonth(date) + 1 ELSE NaN), 2)
        \o <<"-">> \o padStart(StringOfNumber(getDate(date)), 2)

\* DataPoint filling each of the two minutes from its own event
DataPoint_EachOnItsOwn(date, times) ==
    LET sunriseMinutes == IF times.sunrise # NullDate THEN MinutesOfDay(times.sunrise)
                          ELSE null
        sunsetMinutes == IF times.sunset # NullDate THEN MinutesOfDay(times.sunset)
                         ELSE null
    IN  [dateStr |-> localDateStr(date),
         fullDate |-> date,
         sunriseMinutes |-> sunriseMinutes,
         sunsetMinutes |-> sunsetMinutes,
         daylightRange |-> IF BothTruthy(times) THEN <<sunriseMinutes, sunsetMinutes>>
                           ELSE <<>>]

\* one iteration of the loop: the DataPoint pushed for a date and its times
DataPoint(date, times) ==
    LET present == BothTruthy(times)
        sunriseMinutes == IF present THEN MinutesOfDay(times.sunrise) ELSE null
        sunsetMinutes == IF present THEN MinutesOfDay(times.sunset) ELSE null
    IN  [dateStr |-> localDateStr(date),
         fullDate |-> date,
         sunriseMinutes |-> sunriseMinutes,
         sunsetMinutes |-> sunsetMinutes,
         daylightRange |-> IF present THEN <<sunriseMinutes, sunsetMinutes>> ELSE <<>>]

\* the date of day index i (0-based) of the loop
LoopDate(host, year, i) == NewLocalDate(host, year, 0, i + 1)

\* the getSunTimes results of the loop, one per day index
LoopTimes(host, year, latitude, longitude) ==
    [k \in 1..dayCount(year) |->
        getSunTimes(host, LoopDate(host, year, k - 1), latitude, longitude)]

\* the useMemo callback computing data: Intl.DateTimeFormat.format throws a
\* RangeError on an Invalid Date, which ends the build
BuildData(host, year, ts) ==
    IF \E k \in 1..dayCount(year) : ~IsDate(LoopDate(host, year, k - 1))
    THEN [status |-> "threw", days |-> <<>>]
    ELSE [status |-> "ok",
          days |-> [k \in 1..dayCount(year) |->
                       DataPoint(LoopDate(host, year, k - 1), ts[k])]]

\* data.find(d => d.dateStr === selectedDateStr): the index of the first
\* match, 0 if there is none
FindIndex(days, str) ==
    LET matches == {k \in 1..Len(days) : days[k].dateStr = str}
    IN  IF matches = {} THEN 0
        ELSE CHOOSE k \in matches : \A j \in matches : k <= j

\* InfoDashboard: the daylight length shown for the selected record
InfoDashboard(days, idx) ==
    IF idx = 0 THEN [shown |-> FALSE, lengthMinutes |-> 0, lengthHours |-> 0,
                     lengthMinsRemainder |-> 0]
    ELSE LET d == days[idx]
             lengthMinutes == IF d.sunsetMinutes # null /\ d.sunriseMinutes # null
                              THEN (IF d.sunsetMinutes = NaN \/ d.sunriseMinutes = NaN
                                    THEN NaN ELSE d.sunsetMinutes - d.sunriseMinutes)
                              ELSE 0
         IN  [shown |-> TRUE,
              lengthMinutes |-> lengthMinutes,
              lengthHours |-> IF lengthMinutes = NaN THEN NaN ELSE lengthMinutes \div 60,
              lengthMinsRemainder |-> IF lengthMinutes = NaN THEN NaN
                                      ELSE JSRem(lengthMinutes, 60)]

(***************************************************************************)
(* src/App.tsx: App, and the location service it calls                     *)
(***************************************************************************)
\* x.toFixed(2): the nearest number of hundredths, the larger one on a tie
toFixed2(x) ==
    IF x = NaN THEN <<"N", "a", "N">>
    ELSE LET cents == (Abs(x) * 100 + SCALE \div 2) \div SCALE
         IN  (IF x < 0 THEN <<"-">> ELSE <<>>)
                 \o StringOfNumber(cents \div 100) \o <<".">>
                 \o padStart(StringOfNumber(cents % 100), 2)

\* `${lat.toFixed(2)}, ${lng.toFixed(2)}`
CoordsName(lat, lng) == toFixed2(lat) \o <<",", " ">> \o toFixed2(lng)

\* a || b on strings: the first one that is not empty
Or2(a, b) == IF a # <<>> THEN a ELSE b

\* the name getLocationName builds from the body of an OK response
LocationNameOf(body, lat, lng) ==
    LET city == Or2(body.city, Or2(body.locality, body.principalSubdivision))
        country == body.countryName
    IN  IF city # <<>> /\ country # <<>> THEN city \o <<",", " ">> \o country
        ELSE IF country # <<>> THEN country
        ELSE CoordsName(lat, lng)

\* getLocationName without its try/catch
getLocationName_NoCatch(response, body, lat, lng) ==
    IF response = "rejects" THEN [settled |-> "rejected", value |-> <<>>]
    ELSE IF response = "notOk" THEN [settled |-> "fulfilled", value |-> CoordsName(lat, lng)]
    ELSE IF body.kind # "object" THEN [settled |-> "rejected", value |-> <<>>]
    ELSE [settled |-> "fulfilled", value |-> LocationNameOf(body, lat, lng)]

\* how the promise of getLocationName settles: response is how fetch settled
\* ("rejects", "notOk", "ok"), body how response.json() did ("unparsable": it
\* rejects; "null": data.city throws; "object")
getLocationName(response, body, lat, lng) ==
    IF response = "rejects" THEN [settled |-> "fulfilled", value |-> CoordsName(lat, lng)]
    ELSE IF response = "notOk" THEN [settled |-> "fulfilled", value |-> CoordsName(lat, lng)]
    ELSE IF body.kind # "object" THEN [settled |-> "fulfilled", value |-> CoordsName(lat, lng)]
    ELSE [settled |-> "fulfilled", value |-> LocationNameOf(body, lat, lng)]

\* str.split('-')
RECURSIVE split(_)
split(str) ==
    IF \A i \in 1..Len(str) : str[i] # "-" THEN <<str>>
    ELSE LET i == CHOOSE j \in 1..Len(str) :
                      str[j] = "-" /\ \A k \in 1..(j - 1) : str[k] # "-"
         IN  <<SubSeq(str, 1, i - 1)>> \o split(SubSeq(str, i + 1, Len(str)))

\* parts[i], undefined (the empty string here) past the end
Part(parts, i) == IF i + 1 <= Len(parts) THEN parts[i + 1] ELSE <<>>

\* parseInt(s, 10) of a string without sign or blanks: its leading digits
RECURSIVE parseIntFrom(_, _)
parseIntFrom(s, acc) ==
    IF s = <<>> \/ Head(s) \notin {"0", "1", "2", "3", "4", "5", "6", "7", "8", "9"}
    THEN acc
    ELSE parseIntFrom(Tail(s),
                      (IF acc = NaN THEN 0 ELSE acc * 10)
                          + (CHOOSE d \in 0..9 : DigitChar(d) = Head(s)))

parseInt(s) == parseIntFrom(s, NaN)

\* new Date().toISOString().split('T')[0], for the years 0 to 9999
toISODate(d) ==
    LET c == CivilFromDays(d.day)
    IN  padStart(StringOfNumber(c.y), 4) \o <<"-">> \o padStart(StringOfNumber(c.m), 2)
            \o <<"-">> \o padStart(StringOfNumber(c.d), 2)

\* the selectedDateStr handleYearChange sets when the year becomes newYear
YearChangedDateStr(host, newYear, str) ==
    LET parts == split(str)
        month == parseInt(Part(parts, 1))
        day == parseInt(Part(parts, 2))
        newDate == IF month = NaN \/ day = NaN THEN InvalidDate
                   ELSE NewLocalDate(host, newYear, month - 1, day)
    IN  localDateStr(newDate)

(***************************************************************************)
(* State                                                                   *)
(***************************************************************************)
VARIABLES
    host,             \* the time zone of the machine the code runs on
    year,             \* SunChart prop
    latitude,         \* SunChart prop / getSunTimes argument
    longitude,        \* SunChart prop / getSunTimes argument
    date,             \* getSunTimes argument
    times,            \* getSunTimes: the object it fills and returns
    pc,               \* getSunTimes: position in the call
    chart,            \* SunChart: "mount", "ready" or "crashed"
    data,             \* SunChart: the memoized year series
    calls,            \* the getSunTimes results the build obtained, per day
    picked,           \* the civil date last entered in the date input
    selectedDateStr,  \* SunChart prop
    selectedData,     \* SunChart: index in data of the selected record, 0 if none
    dashboard,        \* InfoDashboard: what it computed at the last render
    location,         \* App: the location state {coords, name, loading, error}
    currentTheme,     \* App: the theme state
    geo,              \* App: the geolocation request and the getLocationName call
    today,            \* App: the reading of the host's clock when App mounted
    isDragging,       \* SunChart: the isDragging ref
    onDateChange,     \* SunChart prop: "function", or "undefined" as App passes it
    events            \* the pointer events the chart received, oldest first

calcVars == <<date, times, pc>>
chartVars == <<chart, data, calls, picked, selectedDateStr, selectedData, dashboard>>
propVars == <<host, year, latitude, longitude>>
appVars == <<location, currentTheme, geo, today>>
dragVars == <<isDragging, onDateChange, events>>
vars == <<host, year, latitude, longitude, date, times, pc,
          chart, data, calls, picked, selectedDateStr, selectedData, dashboard,
          location, currentTheme, geo, today, isDragging, onDateChange, events>>

(***************************************************************************)
(* Bounds and input sets                                                   *)
(***************************************************************************)
\* day indexes 0, DayStride, 2 * DayStride, ... of the year are computed
DayStride == 5
\* the series are built for the years 2024 - YearsBack .. 2024, and a few others
YearsBack == 1

Deg(n) == n * SCALE

UTCHost == [std |-> 0, dst |-> "none"]
Hosts == {UTCHost, [std |-> 60, dst |-> "north"], [std |-> 600, dst |-> "south"]}

CalcYears == {2024}
\* June 21 and December 21 of 2024 are the day indexes 172 and 355
CalcDayIndexes == {k * DayStride : k \in 0..(365 \div DayStride)} \cup {172, 355}
\* 73.2 and 73.5 degrees: at the antimeridian the Sun barely rises there on
\* 2024-11-11 and on 2024-01-31
CalcLats == {Deg(0 - 90), Deg(0 - 70), Deg(0), Deg(45), Deg(70), Deg(732) \div 10,
             Deg(735) \div 10, Deg(75), Deg(90), Deg(100), NaN}
CalcLngs == {Deg(0 - 180), Deg(0 - 75), Deg(0), Deg(75), Deg(180), Deg(200), PosInf}

ChartYears == {50, 999, 1900, 2000, 275760} \cup ((2024 - YearsBack)..2024)
ChartCoords == {<<Deg(0), Deg(0)>>, <<Deg(0), Deg(180)>>, <<Deg(75), Deg(0)>>}

InRange(lat, lng) ==
    /\ lat >= Deg(0 - 90) /\ lat <= Deg(90)
    /\ lng >= Deg(0 - 180) /\ lng <= Deg(180)

NoPick == [y |-> 0, m |-> 0, d |-> 0]

IsCivil(c) == c.m \in 1..12 /\ c.d >= 1 /\ CivilFromDays(DaysFromCivil(c.y, c.m, c.d)) = c

\* the civil dates entered in the date input while the series of year y is shown
Pickable(y) ==
    {c \in {[y |-> yy, m |-> mm, d |-> dd] :
                yy \in {y - 1, y, y + 1}, mm \in {1, 2, 12}, dd \in {1, 29, 31}} :
        /\ IsCivil(c)
        /\ c.y = y \/ (c.y = y + 1 /\ c.m = 1 /\ c.d = 1) \/ (c.y = y - 1 /\ c.m = 12 /\ c.d = 31)}

(***************************************************************************)
(* getSunTimes(date, latitude, longitude), one call                        *)
(***************************************************************************)
NoTimes == [sunrise |-> NullDate, sunset |-> NullDate]
NoDashboard == [shown |-> FALSE, lengthMinutes |-> 0, lengthHours |-> 0,
                lengthMinsRemainder |-> 0]
NoData == [status |-> "none", days |-> <<>>]
NoCoords == <<>>
\* the initial location state of App
NoLocation == [coords |-> NoCoords, name |-> <<>>, loading |-> TRUE, error |-> "null"]
NoBody == [kind |-> "none", city |-> <<>>, locality |-> <<>>,
           principalSubdivision |-> <<>>, countryName |-> <<>>]
NoGeo == [pc |-> "unmounted", lat |-> 0, lng |-> 0, response |-> "none",
          body |-> NoBody, settled |-> "pending", name |-> <<>>]
\* App and the chart's pointer handling at rest
AppIdle ==
    location = NoLocation /\ currentTheme = "amber" /\ geo = NoGeo /\ today = NullDate
DragIdle == isDragging = FALSE /\ onDateChange = "undefined" /\ events = <<>>

InitCalc ==
    /\ host \in Hosts
    /\ year \in CalcYears
    /\ latitude \in CalcLats
    /\ longitude \in CalcLngs
    /\ \E i \in CalcDayIndexes : date = LoopDate(host, year, i)
    /\ times = NoTimes
    /\ pc = "start"
    /\ chart = "mount" /\ data = NoData /\ calls = <<>> /\ picked = NoPick
    /\ selectedDateStr = <<>> /\ selectedData = 0 /\ dashboard = NoDashboard
    /\ AppIdle /\ DragIdle

\* times.sunrise = calculateTime(true)
CalcSunrise ==
    /\ pc = "start"
    /\ \E N \in {DayOfYear(host, date)} : \E lngHour \in {LngHour(longitude)} :
           times' = [times EXCEPT !.sunrise =
                        calculateTime(TRUE, host, date, N, lngHour, latitude)]
    /\ pc' = "rise"
    /\ UNCHANGED <<date, propVars, chartVars, appVars, dragVars>>

\* times.sunset = calculateTime(false); return times
CalcSunset ==
    /\ pc = "rise"
    /\ \E N \in {DayOfYear(host, date)} : \E lngHour \in {LngHour(longitude)} :
           times' = [times EXCEPT !.sunset =
                        calculateTime(FALSE, host, date, N, lngHour, latitude)]
    /\ pc' = "done"
    /\ UNCHANGED <<date, propVars, chartVars, appVars, dragVars>>

NextCalc == CalcSunrise \/ CalcSunset

SpecCalc == InitCalc /\ [][NextCalc]_vars

(***************************************************************************)
(* SunChart: the build of the year series and the selection of a record    *)
(***************************************************************************)
Init ==
    /\ host \in Hosts
    /\ year \in ChartYears
    /\ \E c \in ChartCoords : latitude = c[1] /\ longitude = c[2]
    /\ date = LoopDate(host, year, 0)
    /\ times = NoTimes
    /\ pc = "idle"
    /\ chart = "mount" /\ data = NoData /\ calls = <<>> /\ picked = NoPick
    /\ selectedDateStr = <<>> /\ selectedData = 0 /\ dashboard = NoDashboard
    /\ AppIdle /\ DragIdle

\* first render: useMemo computes data, then selectedData; InfoDashboard renders
Build ==
    /\ chart = "mount"
    /\ \E ts \in {LoopTimes(host, year, latitude, longitude)} :
       \E built \in {BuildData(host, year, ts)} :
       \E idx \in {FindIndex(built.days, selectedDateStr)} :
           /\ calls' = ts
           /\ data' = built
           /\ chart' = IF built.status = "ok" THEN "ready" ELSE "crashed"
           /\ selectedData' = idx
           /\ dashboard' = InfoDashboard(built.days, idx)
    /\ UNCHANGED <<picked, selectedDateStr, propVars, calcVars, appVars, dragVars>>

\* the selectedDateStr prop changes to the value of the date input:
\* selectedData is recomputed from the memoized data, InfoDashboard renders
SelectDate(c) ==
    /\ chart = "ready"
    /\ \E str \in {InputDateValue(c.y, c.m, c.d)} :
       \E idx \in {FindIndex(data.days, str)} :
           /\ picked' = c
           /\ selectedDateStr' = str
           /\ selectedData' = idx
           /\ dashboard' = InfoDashboard(data.days, idx)
    /\ UNCHANGED <<chart, data, calls, propVars, calcVars, appVars, dragVars>>

Next ==
    \/ Build
    \/ \E c \in Pickable(year) : SelectDate(c)

Spec == Init /\ [][Next]_vars

(***************************************************************************)
(* App: mount, geolocation, reverse geocoding, and the header's controls   *)
(***************************************************************************)
\* the year select offers the years from YearOptionsSpan before the clock's
\* year to YearOptionsSpan after it
YearOptionsSpan == 1

\* the instant day + sec (UTC) as a Date of a host in the given time zone
Instant(zone, day, sec) ==
    LET utcOff == HostOffset(zone, CivilFromDays(day).m)
        localDay == day + (sec + utcOff * 60) \div DaySeconds
    IN  [kind |-> "date", day |-> day, sec |-> sec,
         off |-> HostOffset(zone, CivilFromDays(localDay).m)]

\* 2024-06-15T12:00Z, 2024-12-31T23:30Z, 2025-01-01T00:30Z
MountInstants ==
    {<<DaysFromCivil(2024, 6, 15), 12 * 3600>>,
     <<DaysFromCivil(2024, 12, 31), 23 * 3600 + 1800>>,
     <<DaysFromCivil(2025, 1, 1), 1800>>}

\* positions the browser reports: Copenhagen, New York, a point just south of
\* the equator on the Greenwich meridian
Positions == {<<556761, 125683>>, <<407484, 0 - 739857>>, <<0 - 40, 0>>}

Oslo == <<"O", "s", "l", "o">>
Norway == <<"N", "O">>
\* the bodies of an OK response
Bodies ==
    {[kind |-> "unparsable", city |-> <<>>, locality |-> <<>>,
      principalSubdivision |-> <<>>, countryName |-> <<>>],
     [kind |-> "null", city |-> <<>>, locality |-> <<>>,
      principalSubdivision |-> <<>>, countryName |-> <<>>]}
    \cup [kind : {"object"}, city : {<<>>, Oslo}, locality : {<<>>, <<"E", "k">>},
          principalSubdivision : {<<>>, <<"V">>}, countryName : {<<>>, Norway}]

Themes == {"amber", "sky"}

\* the values the date input can hand to handleDateChange: empty, or a date
DateInputValues ==
    {<<>>, InputDateValue(2024, 2, 29), InputDateValue(2023, 12, 31),
     InputDateValue(2025, 1, 1)}

yearOptions == (getFullYear(today) - YearOptionsSpan)..(getFullYear(today) + YearOptionsSpan)

\* App's useState initial values on a host whose clock reads some instant
InitApp ==
    /\ host \in Hosts
    /\ \E n \in MountInstants : today = Instant(host, n[1], n[2])
    /\ year = getFullYear(today)
    /\ selectedDateStr = toISODate(today)
    /\ location = NoLocation
    /\ currentTheme = "amber"
    /\ geo = [NoGeo EXCEPT !.pc = "mounted"]
    /\ latitude = null /\ longitude = null
    /\ date = NullDate /\ times = NoTimes /\ pc = "idle"
    /\ chart = "mount" /\ data = NoData /\ calls = <<>> /\ picked = NoPick
    /\ selectedData = 0 /\ dashboard = NoDashboard
    /\ DragIdle

AppRest == <<host, today, calcVars, chart, data, calls, picked, selectedData,
             dashboard, dragVars>>

\* the mount effect: without navigator.geolocation the error is set, otherwise
\* getCurrentPosition is called
MountEffect(supported) ==
    /\ geo.pc = "mounted"
    /\ IF supported
       THEN geo' = [geo EXCEPT !.pc = "locating"] /\ UNCHANGED location
       ELSE /\ geo' = [geo EXCEPT !.pc = "off"]
            /\ location' = [location EXCEPT !.loading = FALSE, !.error = "unsupported"]
    /\ UNCHANGED <<year, selectedDateStr, currentTheme, latitude, longitude, AppRest>>

\* the success callback of getCurrentPosition: the coordinates are stored,
\* SunChart is rendered with them, and fetchLocationName is called
PositionSuccess(c) ==
    /\ geo.pc = "locating"
    /\ location' = [location EXCEPT !.coords = c, !.loading = FALSE, !.error = "null"]
    /\ latitude' = c[1] /\ longitude' = c[2]
    /\ geo' = [geo EXCEPT !.pc = "fetch", !.lat = c[1], !.lng = c[2]]
    /\ UNCHANGED <<year, selectedDateStr, currentTheme, AppRest>>

\* the error callback of getCurrentPosition
PositionError(denied) ==
    /\ geo.pc = "locating"
    /\ location' = [location EXCEPT !.loading = FALSE,
                       !.error = IF denied THEN "permissionError" ELSE "locationError"]
    /\ geo' = [geo EXCEPT !.pc = "off"]
    /\ UNCHANGED <<year, selectedDateStr, currentTheme, latitude, longitude, AppRest>>

\* getLocationName: the fetch settles; unless the response is OK the call is over
FetchSettles(response) ==
    /\ geo.pc = "fetch"
    /\ IF response = "ok"
       THEN geo' = [geo EXCEPT !.pc = "json", !.response = response]
       ELSE \E r \in {getLocationName(response, NoBody, geo.lat, geo.lng)} :
               geo' = [geo EXCEPT !.pc = "settled", !.response = response,
                          !.settled = r.settled, !.name = r.value]
    /\ UNCHANGED <<location, year, selectedDateStr, currentTheme, latitude, longitude,
                   AppRest>>

\* getLocationName: response.json() settles and the name is made
JsonSettles(body) ==
    /\ geo.pc = "json"
    /\ \E r \in {getLocationName("ok", body, geo.lat, geo.lng)} :
           geo' = [geo EXCEPT !.pc = "settled", !.body = body,
                      !.settled = r.settled, !.name = r.value]
    /\ UNCHANGED <<location, year, selectedDateStr, currentTheme, latitude, longitude,
                   AppRest>>

\* fetchLocationName after its await: the name is stored, the raw coordinates
\* if the promise was rejected
SetName ==
    /\ geo.pc = "settled"
    /\ location' = [location EXCEPT !.name =
                       IF geo.settled = "fulfilled" THEN geo.name
                       ELSE CoordsName(geo.lat, geo.lng)]
    /\ geo' = [geo EXCEPT !.pc = "named"]
    /\ UNCHANGED <<year, selectedDateStr, currentTheme, latitude, longitude, AppRest>>

handleYearChange(newYear) ==
    /\ year' = newYear
    /\ selectedDateStr' = IF selectedDateStr # <<>>
                          THEN YearChangedDateStr(host, newYear, selectedDateStr)
                          ELSE selectedDateStr
    /\ UNCHANGED <<location, geo, currentTheme, latitude, longitude, AppRest>>

handleDateChange(newDateStr) ==
    /\ selectedDateStr' = newDateStr
    /\ year' = IF newDateStr # <<>> /\ parseInt(Part(split(newDateStr), 0)) # year
               THEN parseInt(Part(split(newDateStr), 0))
               ELSE year
    /\ UNCHANGED <<location, geo, currentTheme, latitude, longitude, AppRest>>

handleThemeChange(theme) ==
    /\ currentTheme' = theme
    /\ UNCHANGED <<location, geo, year, selectedDateStr, latitude, longitude, AppRest>>

NextApp ==
    \/ \E supported \in BOOLEAN : MountEffect(supported)
    \/ \E c \in Positions : PositionSuccess(c)
    \/ \E denied \in BOOLEAN : PositionError(denied)
    \/ \E response \in {"rejects", "notOk", "ok"} : FetchSettles(response)
    \/ \E body \in Bodies : JsonSettles(body)
    \/ SetName
    \/ \E newYear \in yearOptions : handleYearChange(newYear)
    \/ \E newDateStr \in DateInputValues : handleDateChange(newDateStr)
    \/ \E theme \in Themes : handleThemeChange(theme)

SpecApp == InitApp /\ [][NextApp]_vars

(***************************************************************************)
(* SunChart: the pointer events of the chart                               *)
(***************************************************************************)
\* at most MaxEvents pointer events are followed
MaxEvents == 4

ChartDates == {InputDateValue(2024, 1, 1), InputDateValue(2024, 1, 2)}

\* the state object the chart library hands to a handler: given is whether
\* there is one, payload the dateStr of activePayload[0].payload (empty: no
\* active payload), label the activeLabel (empty: none)
PointerStates ==
    {[given |-> FALSE, payload |-> <<>>, label |-> <<>>]}
    \cup [given : {TRUE}, payload : {<<>>} \cup ChartDates,
          label : {<<>>, InputDateValue(2024, 1, 2)}]

\* handleInteraction: the dateStr it calls onDateChange with, empty if it
\* does not call it
handleInteraction(state, selected) ==
    IF ~state.given THEN <<>>
    ELSE LET dateStr == IF state.payload # <<>> THEN state.payload
                        ELSE IF state.label # <<>> THEN state.label
                        ELSE <<>>
         IN  IF dateStr # <<>> /\ dateStr # selected THEN dateStr ELSE <<>>

\* a handler ran handleInteraction: onDateChange(dateStr) is a TypeError when
\* the prop is undefined; a parent that passes a function may adopt the date
Interact(type, state) ==
    \E dateStr \in {handleInteraction(state, selectedDateStr)} :
        IF dateStr = <<>>
        THEN /\ events' = Append(events, [type |-> type, outcome |-> "none",
                                          dateStr |-> <<>>, selected |-> selectedDateStr])
             /\ UNCHANGED selectedDateStr
        ELSE IF onDateChange = "undefined"
        THEN /\ events' = Append(events, [type |-> type, outcome |-> "threw",
                                          dateStr |-> dateStr, selected |-> selectedDateStr])
             /\ UNCHANGED selectedDateStr
        ELSE /\ events' = Append(events, [type |-> type, outcome |-> "called",
                                          dateStr |-> dateStr, selected |-> selectedDateStr])
             /\ selectedDateStr' \in {selectedDateStr, dateStr}

NoInteract(type) ==
    /\ events' = Append(events, [type |-> type, outcome |-> "none",
                                 dateStr |-> <<>>, selected |-> selectedDateStr])
    /\ UNCHANGED selectedDateStr

DragRest == <<propVars, calcVars, appVars, chart, data, calls, picked, selectedData,
              dashboard, onDateChange>>

InitDrag ==
    /\ host = UTCHost /\ year = 2024 /\ latitude = Deg(0) /\ longitude = Deg(0)
    /\ date = NullDate /\ times = NoTimes /\ pc = "idle"
    /\ chart = "ready" /\ data = NoData /\ calls = <<>> /\ picked = NoPick
    /\ selectedData = 0 /\ dashboard = NoDashboard
    /\ AppIdle
    /\ selectedDateStr \in {<<>>, InputDateValue(2024, 1, 1)}
    /\ onDateChange \in {"undefined", "function"}
    /\ isDragging = FALSE
    /\ events = <<>>

\* onMouseDown, onTouchStart
handleMouseDown(state) ==
    /\ Len(events) < MaxEvents
    /\ isDragging' = TRUE
    /\ Interact("down", state)
    /\ UNCHANGED DragRest

\* handleMouseMove without the isDragging test
handleMouseMove_Always(state) ==
    /\ Len(events) < MaxEvents
    /\ Interact("move", state)
    /\ UNCHANGED <<isDragging, DragRest>>

\* onMouseMove, onTouchMove
handleMouseMove(state) ==
    /\ Len(events) < MaxEvents
    /\ IF isDragging THEN Interact("move", state) ELSE NoInteract("move")
    /\ UNCHANGED <<isDragging, DragRest>>

\* onMouseUp, onTouchEnd
handleMouseUp ==
    /\ Len(events) < MaxEvents
    /\ isDragging' = FALSE
    /\ NoInteract("up")
    /\ UNCHANGED DragRest

\* onMouseLeave
handleMouseLeave ==
    /\ Len(events) < MaxEvents
    /\ isDragging' = FALSE
    /\ NoInteract("leave")
    /\ UNCHANGED DragRest

NextDrag ==
    \/ \E state \in PointerStates : handleMouseDown(state)
    \/ \E state \in PointerStates : handleMouseMove(state)
    \/ handleMouseUp
    \/ handleMouseLeave

SpecDrag == InitDrag /\ [][NextDrag]_vars

(***************************************************************************)
(* Properties                                                              *)
(***************************************************************************)
Built == chart = "ready"
Records == 1..Len(data.days)
Present(k) == data.days[k].sunriseMinutes # null /\ data.days[k].sunsetMinutes # null

\* C1 as stated: getSunTimes returns sunrise and sunset both present or both
\* absent, never one without the other (on every call the build made).
C1_SunTimesPaired ==
    \A k \in 1..Len(calls) : (calls[k].sunrise = NullDate) <=> (calls[k].sunset = NullDate)

\* C1 as amended: getSunTimes may return one event without the other, but the
\* record built from its result has sunriseMinutes, sunsetMinutes and
\* daylightRange either all present or all absent.
C1_RecordsPaired ==
    Built =>
        \A k \in Records :
            /\ (data.days[k].sunriseMinutes = null) <=> (data.days[k].sunsetMinutes = null)
            /\ (data.days[k].daylightRange = <<>>) <=> (data.days[k].sunriseMinutes = null)

C1_Witness ==
    /\ Built
    /\ \E k \in Records :
          /\ calls[k].sunrise # NullDate
          /\ calls[k].sunset = NullDate
          /\ data.days[k].sunriseMinutes = null
          /\ data.days[k].sunsetMinutes = null

GregorianLeap(y) == y % 4 = 0 /\ (y % 100 # 0 \/ y % 400 = 0)

\* C2: the year series built has exactly 366 records if and only if the year is
\* a Gregorian leap year, and exactly 365 records otherwise.
C2_YearLength ==
    Built =>
        /\ (Len(data.days) = 366) <=> GregorianLeap(year)
        /\ (Len(data.days) = 365) <=> ~GregorianLeap(year)

C2_Witness == Built /\ year = 1900 /\ Len(data.days) = 365

IsDigit(c) == c \in {"0", "1", "2", "3", "4", "5", "6", "7", "8", "9"}

WellFormedDateStr(str) ==
    /\ Len(str) = 10
    /\ \A i \in {1, 2, 3, 4, 6, 7, 9, 10} : IsDigit(str[i])
    /\ str[5] = "-" /\ str[8] = "-"

DigitValue(c) == CHOOSE d \in 0..9 : DigitChar(d) = c

\* the calendar position of a well-formed date string
DateStrKey(str) ==
    (((DigitValue(str[1]) * 10 + DigitValue(str[2])) * 10 + DigitValue(str[3])) * 10
        + DigitValue(str[4])) * 10000
    + (DigitValue(str[6]) * 10 + DigitValue(str[7])) * 100
    + DigitValue(str[9]) * 10 + DigitValue(str[10])

\* the civil date that is January 1 of year y plus i days
JanuaryFirstPlus(y, i) == CivilFromDays(DaysFromCivil(y, 1, 1) + i)

\* C3: every record's dateStr is a zero-padded YYYY-MM-DD string, the strings
\* are strictly ascending in calendar order (hence pairwise different), and
\* the i-th record is January 1 of the requested year plus i days.
C3_DateStrings ==
    Built =>
        /\ \A k \in Records :
              /\ WellFormedDateStr(data.days[k].dateStr)
              /\ LET c == JanuaryFirstPlus(year, k - 1)
                 IN  data.days[k].dateStr = InputDateValue(c.y, c.m, c.d)
        /\ \A k \in 1..(Len(data.days) - 1) :
              DateStrKey(data.days[k].dateStr) < DateStrKey(data.days[k + 1].dateStr)

\* C4: selecting by the date string of a civil date of the series' year finds
\* exactly one record, the one computed for that date; a date string outside
\* the year finds none.
C4_Lookup ==
    (Built /\ picked # NoPick) =>
        IF picked.y = year
        THEN /\ selectedData # 0
             /\ Cardinality({k \in Records : data.days[k].dateStr = selectedDateStr}) = 1
             /\ CivilFromDays(LocalDay(data.days[selectedData].fullDate)) = picked
        ELSE selectedData = 0

\* C5: for every record with sunrise and sunset present, the daylight length
\* the dashboard computes (sunsetMinutes - sunriseMinutes) is an integer >= 0.
C5_DaylightNonNegative ==
    Built =>
        \A k \in Records :
            Present(k) =>
                LET len == InfoDashboard(data.days, k).lengthMinutes
                IN  IsFinite(len) /\ len >= 0

UTCMinutes(d) == getUTCHours(d) * 60 + getUTCMinutes(d)

\* C6 as stated: for every record with sunrise and sunset present, the two
\* minutes are the UTC hour times 60 plus the UTC minute of the instants,
\* whatever the host's time zone.
C6_MinutesAreUTC ==
    Built =>
        \A k \in Records :
            Present(k) =>
                /\ data.days[k].sunriseMinutes = UTCMinutes(calls[k].sunrise)
                /\ data.days[k].sunsetMinutes = UTCMinutes(calls[k].sunset)

\* C6 as amended: the two minutes are the minute of the day of the instants on
\* the host's local clock, that is the UTC minute of the day plus the host's
\* UTC offset at the instant, modulo 1440; they are integers in [0, 1440), and
\* they are the UTC values on a host whose offset is zero.
C6_MinutesAreLocal ==
    Built =>
        \A k \in Records :
            Present(k) =>
                /\ data.days[k].sunriseMinutes =
                      (UTCMinutes(calls[k].sunrise) + calls[k].sunrise.off) % DayMinutes
                /\ data.days[k].sunsetMinutes =
                      (UTCMinutes(calls[k].sunset) + calls[k].sunset.off) % DayMinutes
                /\ data.days[k].sunriseMinutes \in 0..(DayMinutes - 1)
                /\ data.days[k].sunsetMinutes \in 0..(DayMinutes - 1)

C6_Witness ==
    /\ Built
    /\ host.std # 0
    /\ \E k \in Records :
          /\ Present(k)
          /\ data.days[k].sunriseMinutes # UTCMinutes(calls[k].sunrise)

\* C7: no build of the year series ends in an exception, and every record has
\* its sunrise and sunset either absent (null minutes and null daylightRange)
\* or valid minutes of the day.
C7_NoException ==
    /\ chart # "crashed"
    /\ \A k \in Records :
          \/ /\ data.days[k].sunriseMinutes = null
             /\ data.days[k].sunsetMinutes = null
             /\ data.days[k].daylightRange = <<>>
          \/ /\ data.days[k].sunriseMinutes \in 0..(DayMinutes - 1)
             /\ data.days[k].sunsetMinutes \in 0..(DayMinutes - 1)

OutsideUnit(c) == c > SCALE \/ c < 0 - SCALE

\* C8: for in-range latitude and longitude, calculateTime returns null if and
\* only if cosH > 1 or cosH < -1, and a valid instant otherwise.
C8_AbsentIffNoCrossing ==
    InRange(latitude, longitude) =>
        LET N == DayOfYear(host, date)
            lngHour == LngHour(longitude)
        IN  /\ pc \in {"rise", "done"} =>
                /\ (times.sunrise = NullDate) <=> OutsideUnit(CosH(TRUE, N, lngHour, latitude))
                /\ times.sunrise # NullDate => IsDate(times.sunrise)
            /\ pc = "done" =>
                /\ (times.sunset = NullDate) <=> OutsideUnit(CosH(FALSE, N, lngHour, latitude))
                /\ times.sunset # NullDate => IsDate(times.sunset)

C8_Witness ==
    /\ pc = "done"
    /\ InRange(latitude, longitude)
    /\ times.sunset = NullDate
    /\ CosH(FALSE, DayOfYear(host, date), LngHour(longitude), latitude) < 0 - SCALE

IsCivilDate(d, y, m, dd) == IsDate(d) /\ CivilFromDays(LocalDay(d)) = [y |-> y, m |-> m, d |-> dd]

\* C10: at latitude 75 the result of getSunTimes is absent on 2024-12-21, with
\* cosH > 1, and absent on 2024-06-21, with cosH < -1, for every longitude.
C10_PolarAt75 ==
    (pc = "done" /\ latitude = Deg(75) /\ IsFinite(longitude)) =>
        LET N == DayOfYear(host, date)
            lngHour == LngHour(longitude)
        IN  /\ IsCivilDate(date, 2024, 12, 21) =>
                /\ times = NoTimes
                /\ CosH(TRUE, N, lngHour, latitude) > SCALE
                /\ CosH(FALSE, N, lngHour, latitude) > SCALE
            /\ IsCivilDate(date, 2024, 6, 21) =>
                /\ times = NoTimes
                /\ CosH(TRUE, N, lngHour, latitude) < 0 - SCALE
                /\ CosH(FALSE, N, lngHour, latitude) < 0 - SCALE

C10_Witness ==
    /\ pc = "done"
    /\ latitude = Deg(75)
    /\ longitude = Deg(180)
    /\ IsCivilDate(date, 2024, 6, 21)
    /\ times = NoTimes

\* the 1-based position of a date within its calendar year on the host's
\* local calendar
OrdinalInYear(d) == LocalDay(d) - DaysFromCivil(getFullYear(d), 1, 1) + 1

\* C11: the day-of-year N that getSunTimes computes is the 1-based ordinal
\* position of the date within its calendar year, whatever the host's time
\* zone, daylight-saving hosts included.
C11_DayOfYearIsOrdinal ==
    pc \in {"rise", "done"} => DayOfYear(host, date) = OrdinalInYear(date)

\* the normalized UTC hour calculateTime materializes for an event
EventUT(isSunrise) ==
    LET N == DayOfYear(host, date)
        lngHour == LngHour(longitude)
    IN  NormalizeUT(RawUT(isSunrise, N, lngHour, CosH(isSunrise, N, lngHour, latitude)))

InDay(UT) == UT >= 0 /\ UT < 24 * SCALE

\* C12: for every present event, at in-range coordinates already, the UTC
\* hour UT = T - lngHour used to build the instant lies in [0, 24) after the
\* normalization.
C12_UTNormalized ==
    InRange(latitude, longitude) =>
        /\ (pc \in {"rise", "done"} /\ IsDate(times.sunrise)) => InDay(EventUT(TRUE))
        /\ (pc = "done" /\ IsDate(times.sunset)) => InDay(EventUT(FALSE))

\* the civil date of the UTC day of an instant
UTCCivil(d) == CivilFromDays(d.day)

\* C13: every instant getSunTimes returns, at in-range coordinates already,
\* has as its UTC calendar date the year, month and day of the input date,
\* never the previous or the next day.
C13_SameUTCDate ==
    InRange(latitude, longitude) =>
        /\ (pc \in {"rise", "done"} /\ IsDate(times.sunrise)) =>
                UTCCivil(times.sunrise) = CivilFromDays(LocalDay(date))
        /\ (pc = "done" /\ IsDate(times.sunset)) =>
                UTCCivil(times.sunset) = CivilFromDays(LocalDay(date))

\* the reverse geocoding failed: the fetch was rejected, the response was not
\* OK, its body could not be used, or the body names no country
GeocodeFailed ==
    \/ geo.response \in {"rejects", "notOk"}
    \/ geo.response = "ok" /\ (geo.body.kind # "object" \/ geo.body.countryName = <<>>)

\* C14: getLocationName always resolves, on a failure to the raw coordinates
\* "lat.toFixed(2), lng.toFixed(2)", and the state update that stores the name
\* changes location.name only: coords, loading, error, the selected year and
\* date, and the props the year series is computed from stay as they are.
C14_GeocodeFailureContained ==
    /\ [](geo.pc \in {"settled", "named"} =>
            /\ geo.settled = "fulfilled"
            /\ GeocodeFailed => geo.name = CoordsName(geo.lat, geo.lng))
    /\ [](geo.pc = "named" =>
            /\ location.name = geo.name
            /\ location.coords = <<geo.lat, geo.lng>>
            /\ location.loading = FALSE /\ location.error = "null"
            /\ latitude = geo.lat /\ longitude = geo.lng)
    /\ [][(geo.pc = "settled" /\ geo'.pc = "named") =>
            /\ location' = [location EXCEPT !.name = geo.name]
            /\ UNCHANGED <<year, selectedDateStr, latitude, longitude, chart, data, calls>>]_vars

C14_Witness ==
    /\ geo.pc = "named"
    /\ geo.response = "rejects"
    /\ location.coords = <<0 - 40, 0>>
    /\ location.name = <<"-", "0", ".", "0", "0", ",", " ", "0", ".", "0", "0">>

\* C15: selectedDateStr is either empty or a YYYY-MM-DD string whose year is
\* currentYear, in every state reached from the initial one by handleYearChange,
\* handleDateChange and handleThemeChange.
C15_SelectedDateInYear ==
    \/ selectedDateStr = <<>>
    \/ /\ WellFormedDateStr(selectedDateStr)
       /\ DateStrKey(selectedDateStr) \div 10000 = year

\* the i-th pointer event came while a drag was engaged: it is a down, or a
\* move after a down with no up or leave in between
DragEngaged(i) ==
    \/ events[i].type = "down"
    \/ /\ events[i].type = "move"
       /\ \E j \in 1..(i - 1) :
             /\ events[j].type = "down"
             /\ \A k \in (j + 1)..(i - 1) : events[k].type \notin {"up", "leave"}

====
